---- MODULE Spec2Model ----
(***************************************************************************)
(* Model of votter (src/votter.go): a one-shot converter that walks a      *)
(* directory of labelled images and writes a VoTT annotation document.     *)
(*                                                                         *)
(* Strings are sequences of one-character strings, so that filepath.Ext,   *)
(* strings.ToLower, strings.TrimPrefix, filepath.Join and filepath.ToSlash *)
(* are computed character by character as the code computes them.          *)
(***************************************************************************)
EXTENDS Integers, Sequences, FiniteSets, TLC

VARIABLES
    \* ---- the environment of one run of main ----
    srcIsDir,     \* isDirectory(imagesPath)
    dstDirOk,     \* isDirectory(filepath.Dir(annotationFile))
    sep,          \* the host's path separator (os.PathSeparator)
    fsDirs,       \* directories below the images path (paths relative to it)
    fsFiles,      \* files below the images path: pairs <<directory, filename>>
    dstFile0,     \* the destination file before the run
    \* ---- the run of main ----
    pc,           \* position of main
    flag,         \* the flag seen by flag.Parse: "none", "v" or "h"
    exitCode,     \* the process exit code: {} while running, {code} once exited
    todo,         \* findImages: directories filepath.Walk has still to visit
    labels,       \* findImages: the map label -> image filenames
    labelList,    \* main: the slice of labels (line 154)
    work,         \* generateVottEntries: the (label, image) pairs still to do
    entries,      \* generateVottEntries: the slice built so far
    assets,       \* main: the value returned by generateVottEntries
    nextId,       \* uuid.New(): number of identifiers handed out
    dstFile,      \* the destination file
    called,       \* which of the functions main has called
    walkErr,      \* a directory read failed during the walk
    genErr,       \* an open or decode failed during asset building
    writeErr,     \* writeVottJSON returned an error
    \* ---- direct calls, as the unit tests make them ----
    parsed,       \* json.Unmarshal of the written file
    dirEntries,   \* the directory listing handed to listImages
    images,       \* the value returned by listImages
    probe,        \* the filename handed to isImage
    probeResult   \* the value returned by isImage

vars == <<srcIsDir, dstDirOk, sep, fsDirs, fsFiles, dstFile0, pc, flag, exitCode,
          todo, labels, labelList, work, entries, assets, nextId, dstFile, called,
          walkErr, genErr, writeErr, parsed, dirEntries, images, probe, probeResult>>

envVars == <<srcIsDir, dstDirOk, sep, fsDirs, fsFiles, dstFile0>>
testVars == <<parsed, dirEntries, images, probe, probeResult>>

-----------------------------------------------------------------------------
(* Bounds of the model.                                                    *)

MaxDepth == 2      \* depth of the directory tree below the images path
MaxDirs == 2       \* directories below the images path
MaxFiles == 2      \* files in the tree
MaxListing == 2    \* entries of the directory handed to listImages
MaxAssets == 2     \* assets handed directly to writeVottJSON

-----------------------------------------------------------------------------
(* Program constants (src/votter.go lines 24-30).                          *)

ExitSuccesful == 0
ExitImagesFolderNotFound == 1
ExitImagesFolderEmpty == 2
ExitAnnotationsFolderNotFound == 3

-----------------------------------------------------------------------------
(* Strings.                                                                *)

Dot == "."

\* unicode.ToLower on the letters the model uses.
LowerChar(c) ==
    CASE c = "B" -> "b" [] c = "E" -> "e" [] c = "F" -> "f"
      [] c = "G" -> "g" [] c = "I" -> "i" [] c = "J" -> "j" [] c = "M" -> "m"
      [] c = "N" -> "n" [] c = "P" -> "p" [] c = "T" -> "t" [] c = "X" -> "x"
      [] OTHER -> c

\* strings.ToLower
ToLower(s) == [i \in 1..Len(s) |-> LowerChar(s[i])]

\* os.IsPathSeparator on the host
IsPathSeparator(c, hostSep) == c = hostSep \/ (hostSep = "\\" /\ c = "/")

\* filepath.Ext: scan from the end to the last dot of the final path element.
RECURSIVE ExtFrom(_, _, _)
ExtFrom(path, i, hostSep) ==
    IF i < 1 \/ IsPathSeparator(path[i], hostSep) THEN <<>>
    ELSE IF path[i] = Dot THEN SubSeq(path, i, Len(path))
    ELSE ExtFrom(path, i - 1, hostSep)

Ext(path) == ExtFrom(path, Len(path), "/")

\* strings.TrimPrefix
TrimPrefix(s, prefix) ==
    IF Len(s) >= Len(prefix) /\ SubSeq(s, 1, Len(prefix)) = prefix
    THEN SubSeq(s, Len(prefix) + 1, Len(s))
    ELSE s

png == <<".", "p", "n", "g">>
jpg == <<".", "j", "p", "g">>
jpeg == <<".", "j", "p", "e", "g">>
gif == <<".", "g", "i", "f">>
bmp == <<".", "b", "m", "p">>

isImageNoFold(filename) ==
    LET ext == Ext(filename)
    IN  ext = png \/ ext = jpg \/ ext = jpeg \/ ext = gif \/ ext = bmp

\* isImage (lines 236-239)
isImage(filename) ==
    LET ext == ToLower(Ext(filename))
    IN  ext = png \/ ext = jpg \/ ext = jpeg \/ ext = gif \/ ext = bmp

\* listImages (lines 222-234), given what ioutil.ReadDir returned: the names
\* of the directory's entries, sorted by filename.
listImages(files) == SelectSeq(files, isImage)

-----------------------------------------------------------------------------
(* Maps (Go maps as functions) and slices (as sequences).                  *)

EmptyMap == <<>>

MapPut(m, k, v) == [x \in DOMAIN m \cup {k} |-> IF x = k THEN v ELSE m[x]]

\* The orders in which a range over a map with key set S may run.
Perms(S) ==
    {p \in [1..Cardinality(S) -> S] : \A i, j \in DOMAIN p : i # j => p[i] # p[j]}

Min(S) == CHOOSE x \in S : \A y \in S : x <= y

RECURSIVE SortedKeys(_)
SortedKeys(S) == IF S = {} THEN <<>> ELSE <<Min(S)>> \o SortedKeys(S \ {Min(S)})


\* The byte order of the characters the model uses.
ByteOrder ==
    <<".", "B", "E", "F", "G", "I", "J", "M", "N", "P", "T", "X",
      "a", "b", "c", "d", "e", "f", "g", "i", "j", "m", "n", "p", "t", "x">>

Code(c) == CHOOSE i \in DOMAIN ByteOrder : ByteOrder[i] = c

\* s sorts before t (sort.Strings order, as ioutil.ReadDir sorts by filename)
RECURSIVE Less(_, _)
Less(s, t) ==
    IF t = <<>> THEN FALSE
    ELSE IF s = <<>> THEN TRUE
    ELSE IF Head(s) # Head(t) THEN Code(Head(s)) < Code(Head(t))
    ELSE Less(Tail(s), Tail(t))

RECURSIVE SortNames(_)
SortNames(S) ==
    IF S = {} THEN <<>>
    ELSE LET first == CHOOSE x \in S : \A y \in S \ {x} : Less(x, y)
         IN  <<first>> \o SortNames(S \ {first})

-----------------------------------------------------------------------------
(* The filesystem below the images path.                                   *)

Root == <<>>

DirNames == {<<"c">>, <<"d">>}

FileNames ==
    { <<"a", ".", "j", "p", "g">>,
      <<"b", ".", "P", "N", "G">>,
      <<"c", ".", "t", "x", "t">> }

\* Every name an entry of the tree may have, in the order in which
\* ioutil.ReadDir and filepath.Walk sort them.
EntryOrder == SortNames(FileNames \cup DirNames)

DirCands == UNION {[1..n -> DirNames] : n \in 1..MaxDepth}

Parent(d) == SubSeq(d, 1, Len(d) - 1)

Trees ==
    {t \in SUBSET DirCands :
        /\ Cardinality(t) <= MaxDirs
        /\ \A d \in t : Len(d) > 1 => Parent(d) \in t}

Placements(t) ==
    {f \in SUBSET ((t \cup {Root}) \X FileNames) : Cardinality(f) <= MaxFiles}

\* ioutil.ReadDir(dir): the names of dir's entries, sorted.
ReadDir(dir) ==
    SelectSeq(EntryOrder,
              LAMBDA n : <<dir, n>> \in fsFiles \/ Append(dir, n) \in fsDirs)

\* filepath.Base of a directory below the root
Base(dir) == dir[Len(dir)]

\* filepath.Walk(root, fn): the directories in the order fn is called on
\* them (lexical, depth first).  fn is also called on every file, where it
\* does nothing (info.IsDir() is false), so files are left out of the order.
RECURSIVE WalkFrom(_)
RECURSIVE WalkChildren(_, _)
WalkChildren(dir, i) ==
    IF i > Len(EntryOrder) THEN <<>>
    ELSE (IF Append(dir, EntryOrder[i]) \in fsDirs
          THEN WalkFrom(Append(dir, EntryOrder[i])) ELSE <<>>)
         \o WalkChildren(dir, i + 1)
WalkFrom(dir) == <<dir>> \o WalkChildren(dir, 1)

WalkFuncKeepEmpty(lbls, path) ==
    IF path # Root THEN MapPut(lbls, Base(path), listImages(ReadDir(path))) ELSE lbls

\* The callback of findImages (lines 193-208) on a directory it can read.
WalkFunc(lbls, path) ==
    IF path # Root
    THEN LET label == Base(path)
             imgs == listImages(ReadDir(path))
         IN  IF Len(imgs) > 0 THEN MapPut(lbls, label, imgs) ELSE lbls
    ELSE lbls

-----------------------------------------------------------------------------
(* Paths.                                                                  *)

\* The images path given on the command line, and the working directory.
ImagesPath == <<"d", "s">>
Cwd(hostSep) == IF hostSep = "/" THEN <<"/", "w">> ELSE <<"C", ":", "\\", "w">>

\* filepath.Join of clean, non-empty elements
RECURSIVE Join(_, _)
Join(elems, hostSep) ==
    IF Len(elems) = 1 THEN elems[1]
    ELSE elems[1] \o <<hostSep>> \o Join(Tail(elems), hostSep)

\* filepath.Abs of a relative path
Abs(path, hostSep) == Join(<<Cwd(hostSep), path>>, hostSep)

\* filepath.ToSlash
ToSlash(path, hostSep) == [i \in 1..Len(path) |-> IF path[i] = hostSep THEN "/" ELSE path[i]]

FilePrefix == <<"f", "i", "l", "e", ":">>

-----------------------------------------------------------------------------
(* generateVottEntries (lines 241-280).                                    *)

\* What image.DecodeConfig may report for a file that opens.
DecodeSizes == {[Width |-> 1, Height |-> 2], [Width |-> 2, Height |-> 1]}

\* os.Open and image.DecodeConfig on <images path>/label/name: the file must
\* exist to open; one that exists may still fail to open or to decode.
OpenOutcomes(label, name) ==
    {[err |-> TRUE, size |-> [Width |-> 0, Height |-> 0]]}
    \cup (IF <<(<<label>>), name>> \in fsFiles
          THEN {[err |-> FALSE, size |-> s] : s \in DecodeSizes}
          ELSE {})

\* The entry built at lines 262-274.
NewAsset(label, imgFileName, id, size, hostSep) ==
    [Format |-> TrimPrefix(Ext(imgFileName), <<Dot>>),
     ID |-> id,
     Name |-> imgFileName,
     Path |-> FilePrefix
              \o ToSlash(Abs(Join(<<ImagesPath, label, imgFileName>>, hostSep), hostSep),
                         hostSep),
     Size |-> [Width |-> size.Width, Height |-> size.Height],
     State |-> 0,
     Type |-> 0,
     Label |-> label]

\* The (label, image) pairs in the order the two loops reach them, given the
\* order in which the range over the map runs.
RECURSIVE WorkList(_, _)
WorkList(order, lbls) ==
    IF order = <<>> THEN <<>>
    ELSE [i \in 1..Len(lbls[Head(order)]) |-> <<Head(order), lbls[Head(order)][i]>>]
         \o WorkList(Tail(order), lbls)

-----------------------------------------------------------------------------
(* writeVottJSON (lines 282-320).                                          *)

NewRegionSwapped(asset, id) ==
    [ID |-> id,
     Type |-> "RECTANGLE",
     Tags |-> <<asset.Label>>,
     BoundingBox |-> [Height |-> asset.Size.Width, Width |-> asset.Size.Height,
                      Left |-> 0, Top |-> 0],
     Points |-> <<[X |-> 0, Y |-> 0],
                  [X |-> asset.Size.Width, Y |-> asset.Size.Height]>>]

\* The region built at lines 292-298.
NewRegion(asset, id) ==
    [ID |-> id,
     Type |-> "RECTANGLE",
     Tags |-> <<asset.Label>>,
     BoundingBox |-> [Height |-> asset.Size.Height, Width |-> asset.Size.Width,
                      Left |-> 0, Top |-> 0],
     Points |-> <<[X |-> 0, Y |-> 0],
                  [X |-> asset.Size.Width, Y |-> asset.Size.Height]>>]

\* The loop at lines 291-305: model.Assets[asset.ID] = assetDetail, with a
\* fresh identifier for each region.
RECURSIVE AssetsLoop(_, _, _)
AssetsLoop(as, m, firstId) ==
    IF as = <<>> THEN m
    ELSE AssetsLoop(Tail(as),
                    MapPut(m, Head(as).ID,
                           [Asset |-> Head(as),
                            Regions |-> <<NewRegion(Head(as), firstId)>>,
                            Version |-> "2.2.0"]),
                    firstId + 1)

TagsLoopDistinct(tags) ==
    LET keep == {i \in 1..Len(tags) : \A j \in 1..(i - 1) : tags[j] # tags[i]}
    IN  [k \in 1..Cardinality(keep) |->
            [Name |-> tags[CHOOSE i \in keep : Cardinality({j \in keep : j < i}) = k - 1],
             Color |-> "#ff0000"]]

\* The loop at lines 307-313.
TagsLoop(tags) == [i \in 1..Len(tags) |-> [Name |-> tags[i], Color |-> "#ff0000"]]

\* The document built by writeVottJSON in memory (lines 284-313); the fields
\* the literal at lines 284-289 leaves out hold Go's zero values.
VottJsonModel(as, tags, firstId) ==
    [Name |-> "",
     SecurityToken |-> "",
     VideoSettings |-> [FrameExtractionRate |-> 0],
     Tags |-> TagsLoop(tags),
     ID |-> "",
     ActiveLearningSettings |->
         [AutoDetect |-> FALSE, PredictTag |-> TRUE, ModelPathType |-> "coco"],
     Version |-> "2.2.0",
     LastVisitedAssetID |-> "",
     Assets |-> AssetsLoop(as, EmptyMap, firstId)]

\* json.MarshalIndent (line 315): every struct becomes an object keyed by its
\* json tags (Asset.Label has none and keeps its field name), a slice an
\* array, and the map an object whose members are sorted by key.
MarshalAsset(a) ==
    [format |-> a.Format, id |-> a.ID, name |-> a.Name, path |-> a.Path,
     size |-> [width |-> a.Size.Width, height |-> a.Size.Height],
     state |-> a.State, type |-> a.Type, Label |-> a.Label]

MarshalRegion(r) ==
    [id |-> r.ID, type |-> r.Type, tags |-> r.Tags,
     boundingBox |-> [height |-> r.BoundingBox.Height, width |-> r.BoundingBox.Width,
                      left |-> r.BoundingBox.Left, top |-> r.BoundingBox.Top],
     points |-> [i \in 1..Len(r.Points) |-> [x |-> r.Points[i].X, y |-> r.Points[i].Y]]]

MarshalDetail(d) ==
    [asset |-> MarshalAsset(d.Asset),
     regions |-> [i \in 1..Len(d.Regions) |-> MarshalRegion(d.Regions[i])],
     version |-> d.Version]

Marshal(m) ==
    [name |-> m.Name,
     securityToken |-> m.SecurityToken,
     videoSettings |-> [frameExtractionRate |-> m.VideoSettings.FrameExtractionRate],
     tags |-> [i \in 1..Len(m.Tags) |-> [name |-> m.Tags[i].Name, color |-> m.Tags[i].Color]],
     id |-> m.ID,
     activeLearningSettings |->
         [autoDetect |-> m.ActiveLearningSettings.AutoDetect,
          predictTag |-> m.ActiveLearningSettings.PredictTag,
          modelPathType |-> m.ActiveLearningSettings.ModelPathType],
     version |-> m.Version,
     lastVisitedAssetId |-> m.LastVisitedAssetID,
     assets |-> LET keys == SortedKeys(DOMAIN m.Assets)
                IN  [i \in 1..Len(keys) |->
                        [key |-> keys[i], value |-> MarshalDetail(m.Assets[keys[i]])]]]

\* The destination file: what kind of content it holds, and the document when
\* it holds one.
NoData == <<>>
Absent == [kind |-> "absent", data |-> NoData]
Old == [kind |-> "old", data |-> NoData]
Partial == [kind |-> "partial", data |-> NoData]

\* ioutil.WriteFile (line 319): it may fail before touching the file (the
\* open fails) or after truncating it (a write fails).
WriteOutcomes == {"ok", "openfail", "writefail"}

WriteFile(file, data, outcome) ==
    CASE outcome = "ok" -> [kind |-> "doc", data |-> data]
      [] outcome = "openfail" -> file
      [] outcome = "writefail" -> Partial

\* writeVottJSON: the file it leaves and whether it returns an error.
writeVottJSON(file, as, tags, firstId, outcome) ==
    [file |-> WriteFile(file, Marshal(VottJsonModel(as, tags, firstId)), outcome),
     err |-> outcome # "ok"]

\* json.Unmarshal into a VottJsonModel, as Test_WriteVottJSON does (line 141):
\* each member of the assets object is stored under its key, a later member
\* replacing an earlier one with the same key.
UnmarshalAsset(j) ==
    [Format |-> j.format, ID |-> j.id, Name |-> j.name, Path |-> j.path,
     Size |-> [Width |-> j.size.width, Height |-> j.size.height],
     State |-> j.state, Type |-> j.type, Label |-> j.Label]

UnmarshalRegion(j) ==
    [ID |-> j.id, Type |-> j.type, Tags |-> j.tags,
     BoundingBox |-> [Height |-> j.boundingBox.height, Width |-> j.boundingBox.width,
                      Left |-> j.boundingBox.left, Top |-> j.boundingBox.top],
     Points |-> [i \in 1..Len(j.points) |-> [X |-> j.points[i].x, Y |-> j.points[i].y]]]

UnmarshalDetail(j) ==
    [Asset |-> UnmarshalAsset(j.asset),
     Regions |-> [i \in 1..Len(j.regions) |-> UnmarshalRegion(j.regions[i])],
     Version |-> j.version]

RECURSIVE UnmarshalMembers(_, _)
UnmarshalMembers(members, m) ==
    IF members = <<>> THEN m
    ELSE UnmarshalMembers(Tail(members),
                          MapPut(m, Head(members).key, UnmarshalDetail(Head(members).value)))

Unmarshal(j) ==
    [Name |-> j.name,
     SecurityToken |-> j.securityToken,
     VideoSettings |-> [FrameExtractionRate |-> j.videoSettings.frameExtractionRate],
     Tags |-> [i \in 1..Len(j.tags) |-> [Name |-> j.tags[i].name, Color |-> j.tags[i].color]],
     ID |-> j.id,
     ActiveLearningSettings |->
         [AutoDetect |-> j.activeLearningSettings.autoDetect,
          PredictTag |-> j.activeLearningSettings.predictTag,
          ModelPathType |-> j.activeLearningSettings.modelPathType],
     Version |-> j.version,
     LastVisitedAssetID |-> j.lastVisitedAssetId,
     Assets |-> UnmarshalMembers(j.assets, EmptyMap)]

-----------------------------------------------------------------------------
(* main (lines 101-182).                                                   *)

walkVars == <<todo, labels, walkErr>>
genVars == <<work, entries, assets, nextId, genErr>>
outVars == <<dstFile, writeErr>>

Exit(code) == pc' = "exit" /\ exitCode' = {code}

\* Lines 106-118: -v prints the version and exits 0, -h prints the usage and
\* returns from main.
ParseFlags ==
    /\ pc = "flags"
    /\ \E f \in {"none", "v", "h"} :
        /\ flag' = f
        /\ IF f = "v" THEN Exit(0)
           ELSE IF f = "h" THEN Exit(0)
           ELSE pc' = "checkImagesPath" /\ UNCHANGED exitCode
    /\ UNCHANGED <<envVars, testVars, walkVars, genVars, outVars, labelList, called>>

\* Lines 134-137.
CheckImagesPath ==
    /\ pc = "checkImagesPath"
    /\ IF ~srcIsDir THEN Exit(ExitImagesFolderNotFound)
       ELSE pc' = "checkAnnotationsPath" /\ UNCHANGED exitCode
    /\ UNCHANGED <<envVars, testVars, walkVars, genVars, outVars, labelList, called, flag>>

CheckAnnotationsPathSameCode ==
    /\ pc = "checkAnnotationsPath"
    /\ IF ~dstDirOk THEN Exit(ExitImagesFolderNotFound)
       ELSE pc' = "findImages" /\ UNCHANGED exitCode
    /\ UNCHANGED <<envVars, testVars, walkVars, genVars, outVars, labelList, called, flag>>

\* Lines 139-142.
CheckAnnotationsPath ==
    /\ pc = "checkAnnotationsPath"
    /\ IF ~dstDirOk THEN Exit(ExitAnnotationsFolderNotFound)
       ELSE pc' = "findImages" /\ UNCHANGED exitCode
    /\ UNCHANGED <<envVars, testVars, walkVars, genVars, outVars, labelList, called, flag>>

\* Line 147 into findImages, lines 192-193: the empty map and the start of
\* the walk.
FindImagesBegin ==
    /\ pc = "findImages"
    /\ called' = called \cup {"findImages"}
    /\ labels' = EmptyMap
    /\ todo' = WalkFrom(Root)
    /\ pc' = "walk"
    /\ UNCHANGED <<envVars, testVars, genVars, outVars, labelList, flag, exitCode, walkErr>>

\* One directory of the walk (lines 193-208).  Reading the directory may
\* fail (in listImages, or in Walk itself, which then calls the callback with
\* the error): the callback returns the error, findImages returns nil and the
\* error (lines 210-212), and main exits (lines 148-151).
WalkStep ==
    /\ pc = "walk"
    /\ todo # <<>>
    /\ \E readable \in BOOLEAN :
        IF readable
        THEN /\ labels' = WalkFunc(labels, Head(todo))
             /\ todo' = Tail(todo)
             /\ UNCHANGED <<pc, exitCode, walkErr>>
        ELSE /\ walkErr' = TRUE
             /\ labels' = EmptyMap
             /\ Exit(ExitImagesFolderEmpty)
             /\ UNCHANGED todo
    /\ UNCHANGED <<envVars, testVars, genVars, outVars, labelList, called, flag>>

FindImagesEndNoCheck ==
    /\ pc = "walk"
    /\ todo = <<>>
    /\ pc' = "collectLabels"
    /\ UNCHANGED <<envVars, testVars, walkVars, genVars, outVars, labelList, called, flag,
                   exitCode>>

\* The end of the walk (lines 214-219): an empty map ends the process inside
\* findImages.
FindImagesEnd ==
    /\ pc = "walk"
    /\ todo = <<>>
    /\ IF DOMAIN labels = {} THEN Exit(ExitImagesFolderEmpty)
       ELSE pc' = "collectLabels" /\ UNCHANGED exitCode
    /\ UNCHANGED <<envVars, testVars, walkVars, genVars, outVars, labelList, called, flag>>

\* Lines 153-157: the labels in the order the range over the map runs.
CollectLabels ==
    /\ pc = "collectLabels"
    /\ \E order \in Perms(DOMAIN labels) : labelList' = order
    /\ pc' = "generate"
    /\ UNCHANGED <<envVars, testVars, walkVars, genVars, outVars, called, flag, exitCode>>

\* Line 160 into generateVottEntries, lines 242-245.
GenerateBegin ==
    /\ pc = "generate"
    /\ called' = called \cup {"generateVottEntries"}
    /\ \E order \in Perms(DOMAIN labels) : work' = WorkList(order, labels)
    /\ entries' = <<>>
    /\ pc' = "generating"
    /\ UNCHANGED <<envVars, testVars, walkVars, outVars, labelList, flag, exitCode,
                   assets, nextId, genErr>>

GenerateStepSkip ==
    /\ pc = "generating"
    /\ work # <<>>
    /\ \E r \in OpenOutcomes(Head(work)[1], Head(work)[2]) :
        IF r.err
        THEN /\ genErr' = TRUE
             /\ work' = Tail(work)
             /\ UNCHANGED <<pc, exitCode, assets, entries, nextId>>
        ELSE /\ entries' = Append(entries,
                                  NewAsset(Head(work)[1], Head(work)[2], nextId + 1,
                                           r.size, sep))
             /\ nextId' = nextId + 1
             /\ work' = Tail(work)
             /\ UNCHANGED <<pc, exitCode, assets, genErr>>
    /\ UNCHANGED <<envVars, testVars, walkVars, outVars, labelList, called, flag>>

\* One image (lines 246-275).  A failed open or decode returns nil and the
\* error (lines 253-260), and main exits (lines 161-164).
GenerateStep ==
    /\ pc = "generating"
    /\ work # <<>>
    /\ \E r \in OpenOutcomes(Head(work)[1], Head(work)[2]) :
        IF r.err
        THEN /\ genErr' = TRUE
             /\ assets' = <<>>
             /\ Exit(ExitImagesFolderEmpty)
             /\ UNCHANGED <<work, entries, nextId>>
        ELSE /\ entries' = Append(entries,
                                  NewAsset(Head(work)[1], Head(work)[2], nextId + 1,
                                           r.size, sep))
             /\ nextId' = nextId + 1
             /\ work' = Tail(work)
             /\ UNCHANGED <<pc, exitCode, assets, genErr>>
    /\ UNCHANGED <<envVars, testVars, walkVars, outVars, labelList, called, flag>>

\* Line 279 and the return to main.
GenerateEnd ==
    /\ pc = "generating"
    /\ work = <<>>
    /\ assets' = entries
    /\ pc' = "write"
    /\ UNCHANGED <<envVars, testVars, walkVars, outVars, labelList, called, flag, exitCode,
                   work, entries, nextId, genErr>>

\* Lines 169-181: the report on standard output, writeVottJSON and the exit.
WriteAnnotations ==
    /\ pc = "write"
    /\ called' = called \cup {"writeVottJSON"}
    /\ \E outcome \in WriteOutcomes :
        LET res == writeVottJSON(dstFile, assets, labelList, nextId + 1, outcome)
        IN  /\ dstFile' = res.file
            /\ writeErr' = res.err
            /\ IF res.err THEN Exit(ExitImagesFolderNotFound) ELSE Exit(ExitSuccesful)
    /\ nextId' = nextId + Len(assets)
    /\ UNCHANGED <<envVars, testVars, walkVars, labelList, flag, work, entries, assets,
                   genErr>>

NoTest ==
    /\ parsed = NoData
    /\ dirEntries = <<>>
    /\ images = <<>>
    /\ probe = <<>>
    /\ probeResult = FALSE

NoRun ==
    /\ flag = "none"
    /\ exitCode = {}
    /\ todo = <<>>
    /\ labels = EmptyMap
    /\ work = <<>>
    /\ entries = <<>>
    /\ nextId = 0
    /\ called = {}
    /\ walkErr = FALSE
    /\ genErr = FALSE
    /\ writeErr = FALSE

\* A run of the program on some filesystem: a tree exists below the images
\* path only when that path is a directory, and a destination file exists
\* only when its directory does.
Init ==
    /\ srcIsDir \in BOOLEAN
    /\ sep \in {"/", "\\"}
    /\ dstFile0 \in {Absent, Old}
    /\ dstDirOk \in (IF dstFile0.kind = "old" THEN {TRUE} ELSE BOOLEAN)
    /\ fsDirs \in (IF srcIsDir THEN Trees ELSE {{}})
    /\ fsFiles \in (IF srcIsDir THEN Placements(fsDirs) ELSE {{}})
    /\ dstFile = dstFile0
    /\ pc = "flags"
    /\ labelList = <<>>
    /\ assets = <<>>
    /\ NoRun
    /\ NoTest

Next ==
    \/ ParseFlags
    \/ CheckImagesPath
    \/ CheckAnnotationsPath
    \/ FindImagesBegin
    \/ WalkStep
    \/ FindImagesEnd
    \/ CollectLabels
    \/ GenerateBegin
    \/ GenerateStep
    \/ GenerateEnd
    \/ WriteAnnotations

Spec == Init /\ [][Next]_vars

-----------------------------------------------------------------------------
(* Direct calls of writeVottJSON, as Test_WriteVottJSON makes them (lines   *)
(* 109-152 of src/votter_test.go): any assets and any tags, the file read  *)
(* back and parsed.                                                        *)

TestSizes == DecodeSizes \cup {[Width |-> 0, Height |-> 0]}

TestAssets ==
    {NewAsset(l, <<"a", ".", "j", "p", "g">>, id, size, "/") :
        l \in DirNames, id \in 1..MaxAssets, size \in TestSizes}

SeqsUpTo(S, n) == UNION {[1..k -> S] : k \in 0..n}

InitWrite ==
    /\ srcIsDir = TRUE
    /\ dstDirOk = TRUE
    /\ sep = "/"
    /\ fsDirs = {}
    /\ fsFiles = {}
    /\ dstFile0 = Old
    /\ dstFile = Old
    /\ pc = "testWrite"
    /\ assets \in SeqsUpTo(TestAssets, MaxAssets)
    /\ labelList \in SeqsUpTo(DirNames, MaxAssets)
    /\ NoRun
    /\ NoTest

TestWriteVottJSON ==
    /\ pc = "testWrite"
    /\ \E outcome \in WriteOutcomes :
        LET res == writeVottJSON(dstFile, assets, labelList, nextId + 1, outcome)
        IN  /\ dstFile' = res.file
            /\ writeErr' = res.err
            /\ pc' = IF res.err THEN "testFailed" ELSE "testRead"
    /\ nextId' = nextId + Len(assets)
    /\ called' = called \cup {"writeVottJSON"}
    /\ UNCHANGED <<envVars, testVars, walkVars, labelList, flag, exitCode, work, entries,
                   assets, genErr>>

TestUnmarshal ==
    /\ pc = "testRead"
    /\ parsed' = Unmarshal(dstFile.data)
    /\ pc' = "testDone"
    /\ UNCHANGED <<envVars, walkVars, genVars, outVars, labelList, called, flag, exitCode,
                   dirEntries, images, probe, probeResult>>

NextWrite == TestWriteVottJSON \/ TestUnmarshal

WriteSpec == InitWrite /\ [][NextWrite]_vars

-----------------------------------------------------------------------------
(* Direct calls of listImages and isImage, as Test_ListImages makes them    *)
(* (lines 11-39 of src/votter_test.go), on directories of any names.       *)

UpperChar(c) ==
    CASE c = "b" -> "B" [] c = "e" -> "E" [] c = "f" -> "F" [] c = "g" -> "G"
      [] c = "i" -> "I" [] c = "j" -> "J" [] c = "m" -> "M" [] c = "n" -> "N"
      [] c = "p" -> "P" [] c = "t" -> "T" [] c = "x" -> "X"
      [] OTHER -> c

\* The spellings of an extension in lower, upper and mixed case.
Spellings(e) ==
    {[i \in 1..Len(e) |-> IF i \in U THEN UpperChar(e[i]) ELSE e[i]] :
        U \in {{}, 2..Len(e), {2}, {Len(e)}, 3..Len(e)}}

OtherExts ==
    { <<>>,
      <<".">>,
      <<".", "t", "x", "t">>,
      <<".", "j", "p">>,
      <<".", "p", "n", "g", "x">>,
      <<".", "j", "p", "e">>,
      <<".", "g", "i", "f", ".", "t", "x", "t">>,
      <<".", "j", "p", "g", ".">>,
      <<"j", "p", "g">>,
      <<"p", "n", "g">> }

TestNames ==
    {<<"x">> \o e : e \in (UNION {Spellings(x) : x \in {png, jpg, jpeg, gif, bmp}})
                          \cup OtherExts}
    \cup { jpg, <<".", "G", "I", "F">>, <<"b", "m", "p">>,
           <<"x", ".", "t", "x", "t", ".", "P", "n", "g">>,
           <<"x", ".", ".", "j", "p", "e", "g">> }

InitImages ==
    /\ srcIsDir = TRUE
    /\ dstDirOk = TRUE
    /\ sep = "/"
    /\ fsDirs = {}
    /\ fsFiles = {}
    /\ dstFile0 = Absent
    /\ dstFile = Absent
    /\ pc = "testList"
    /\ assets = <<>>
    /\ labelList = <<>>
    /\ NoRun
    /\ parsed = NoData
    /\ \E f \in SeqsUpTo(TestNames, MaxListing) :
        dirEntries = SortNames({f[i] : i \in DOMAIN f})
    /\ images = <<>>
    /\ probe = <<>>
    /\ probeResult = FALSE

TestListImages ==
    /\ pc = "testList"
    /\ images' = listImages(dirEntries)
    /\ pc' = "testProbe"
    /\ UNCHANGED <<envVars, walkVars, genVars, outVars, labelList, called, flag, exitCode,
                   parsed, dirEntries, probe, probeResult>>

TestIsImage ==
    /\ pc = "testProbe"
    /\ \E i \in DOMAIN dirEntries :
        /\ probe' = dirEntries[i]
        /\ probeResult' = isImage(dirEntries[i])
    /\ pc' = "testDone"
    /\ UNCHANGED <<envVars, walkVars, genVars, outVars, labelList, called, flag, exitCode,
                   parsed, dirEntries, images>>

NextImages == TestListImages \/ TestIsImage

ImageSpec == InitImages /\ [][NextImages]_vars

-----------------------------------------------------------------------------
(* What the claims speak of, stated from the filesystem and the written    *)
(* document rather than from the program's variables.                      *)

ImageExts == {png, jpg, jpeg, gif, bmp}

\* s and the lower-case string t are equal up to the case of letters
EqualFold(s, t) ==
    /\ Len(s) = Len(t)
    /\ \A i \in 1..Len(s) : s[i] = t[i] \/ s[i] = UpperChar(t[i])

\* the name's final extension (from its last dot on) is an image extension
Qualifies(name) ==
    \E k \in 1..Len(name) :
        /\ name[k] = "."
        /\ \A j \in (k + 1)..Len(name) : name[j] # "."
        /\ \E e \in ImageExts : EqualFold(SubSeq(name, k, Len(name)), e)

\* the directories below the source that directly contain a qualifying image
ImageDirs == {d \in fsDirs : \E n \in FileNames : <<d, n>> \in fsFiles /\ Qualifies(n)}

\* the image files the walk discovers
Discovered == {f \in fsFiles : f[1] \in fsDirs /\ Qualifies(f[2])}

\* the qualifying filenames of a directory, in directory order
QualifyingOf(d) ==
    SelectSeq(EntryOrder, LAMBDA n : <<d, n>> \in fsFiles /\ Qualifies(n))

\* how often x occurs in the sequence s
Count(s, x) == Cardinality({i \in DOMAIN s : s[i] = x})

\* the absolute location of file name in directory d, as a file: URI
RECURSIVE SlashPath(_)
SlashPath(d) == IF d = <<>> THEN <<>> ELSE <<"/">> \o Head(d) \o SlashPath(Tail(d))
Location(d, name) ==
    FilePrefix
    \o (IF sep = "/" THEN <<"/", "w">> ELSE <<"C", ":", "/", "w">>)
    \o SlashPath(<<ImagesPath>> \o d \o <<name>>)

Exited == pc = "exit" /\ flag = "none"
Written == dstFile.kind = "doc"
Members == dstFile.data.assets
Untouched == dstFile.kind = dstFile0.kind

\* (C1) The exit code of a run is fixed by the first stage that fails: the
\* source path is no directory, 1; else the destination's directory is
\* missing, 3; else the walk fails or no directory holds an image, 2; else an
\* open or decode fails, 2; else the write fails, 1; else 0.  Exit 0 comes
\* only after writeVottJSON returned without error.
C1_ExitCodeByFirstFailure ==
    Exited =>
        /\ exitCode =
              { IF ~srcIsDir THEN 1
                ELSE IF ~dstDirOk THEN 3
                ELSE IF walkErr \/ ImageDirs = {} THEN 2
                ELSE IF genErr THEN 2
                ELSE IF writeErr THEN 1
                ELSE 0 }
        /\ exitCode = {0} => "writeVottJSON" \in called /\ ~writeErr /\ Written
        /\ ~srcIsDir \/ ~dstDirOk => called = {}
        /\ srcIsDir /\ dstDirOk /\ (walkErr \/ ImageDirs = {}) => called = {"findImages"}
        /\ genErr => called = {"findImages", "generateVottEntries"}

C1_Witness ==
    Exited /\ writeErr /\ exitCode = {1} /\ Len(assets) = 2

\* (C2) When no directory below the source directly contains a qualifying
\* image, a run that reaches the scan ends with exit code 2, never enters
\* asset building, and never creates or modifies the destination file.
C2_EmptyTreeExits2 ==
    srcIsDir /\ ImageDirs = {} =>
        /\ "generateVottEntries" \notin called
        /\ "writeVottJSON" \notin called
        /\ Untouched
        /\ pc \notin {"collectLabels", "generate", "generating", "write"}
        /\ Exited /\ dstDirOk => exitCode = {ExitImagesFolderEmpty}

C2_Witness ==
    /\ Exited /\ srcIsDir /\ dstDirOk /\ ~walkErr
    /\ ImageDirs = {} /\ fsDirs # {} /\ fsFiles # {}
    /\ exitCode = {ExitImagesFolderEmpty}

C4_OneLabelPerImageDir ==
    pc = "collectLabels" =>
        /\ Cardinality(DOMAIN labels) = Cardinality(ImageDirs)
        /\ \A d \in ImageDirs :
              Base(d) \in DOMAIN labels /\ labels[Base(d)] = QualifyingOf(d)

\* (C5) In a run that ends with exit code 0 the written document holds
\* exactly one asset entry for each image the walk discovered, with the
\* file's basename as name, its directory's basename as label and its own
\* absolute location as path.
C5_OneEntryPerDiscoveredImage ==
    Exited /\ exitCode = {0} =>
        /\ Len(Members) = Cardinality(Discovered)
        /\ \A f \in Discovered :
              Cardinality({i \in DOMAIN Members :
                              /\ Members[i].value.asset.name = f[2]
                              /\ Members[i].value.asset.Label = Base(f[1])
                              /\ Members[i].value.asset.path = Location(f[1], f[2])}) = 1

\* (C6) In every document a run writes, each asset's label, the single tag
\* of its region, names exactly one entry of the tag list: the tag list has
\* no duplicate, holds every label an asset uses, and no label without asset.
C6_TagsMatchAssetLabels ==
    Written =>
        LET tags == dstFile.data.tags
        IN  /\ \A i, j \in DOMAIN tags : tags[i].name = tags[j].name => i = j
            /\ \A i \in DOMAIN Members :
                  /\ Len(Members[i].value.regions) = 1
                  /\ Members[i].value.regions[1].tags = <<Members[i].value.asset.Label>>
                  /\ Cardinality({t \in DOMAIN tags :
                                     tags[t].name = Members[i].value.asset.Label}) = 1
            /\ \A t \in DOMAIN tags :
                  \E i \in DOMAIN Members : Members[i].value.asset.Label = tags[t].name

C6_Witness ==
    Written /\ Len(dstFile.data.tags) = 2 /\ Len(Members) = 2 /\ pc = "exit"

\* (C9) The Format of every asset is its file's extension, lowercased and
\* without the leading dot.
C9_FormatIsLowercaseExtension ==
    \A i \in DOMAIN entries :
        \E k \in 1..Len(entries[i].Name) :
            /\ entries[i].Name[k] = "."
            /\ \A j \in (k + 1)..Len(entries[i].Name) : entries[i].Name[j] # "."
            /\ Len(entries[i].Format) = Len(entries[i].Name) - k
            /\ \A j \in 1..Len(entries[i].Format) :
                  /\ entries[i].Format[j] = LowerChar(entries[i].Format[j])
                  /\ entries[i].Name[k + j] \in
                        {entries[i].Format[j], UpperChar(entries[i].Format[j])}

WriteReturned == pc \in {"testRead", "testDone"}

\* the member of the written document stored under identifier id
MemberOf(id) == Members[CHOOSE i \in DOMAIN Members : Members[i].key = id]

\* the region the claim describes for an asset of label l, width w, height h
IsFullImageRegion(r, l, w, h) ==
    /\ r.type = "RECTANGLE"
    /\ r.tags = <<l>>
    /\ r.boundingBox = [height |-> h, width |-> w, left |-> 0, top |-> 0]
    /\ r.points = <<[x |-> 0, y |-> 0], [x |-> w, y |-> h]>>

\* (C7) For every asset of width W and height H passed to writeVottJSON, its
\* document entry has exactly one region, a RECTANGLE tagged with exactly the
\* asset's label, with bounding box left 0, top 0, width W, height H and
\* points (0,0) then (W,H).  The entry of an asset is the one stored under
\* its identifier and holding it; the last asset passed with an identifier
\* always has one.
C7_RegionCoversWholeImage ==
    WriteReturned =>
        \A i \in DOMAIN assets :
            /\ \E k \in DOMAIN Members : Members[k].key = assets[i].ID
            /\ (\A j \in (i + 1)..Len(assets) : assets[j].ID # assets[i].ID)
                  => MemberOf(assets[i].ID).value.asset = MarshalAsset(assets[i])
            /\ MemberOf(assets[i].ID).value.asset = MarshalAsset(assets[i])
                  => /\ Len(MemberOf(assets[i].ID).value.regions) = 1
                     /\ IsFullImageRegion(MemberOf(assets[i].ID).value.regions[1],
                                          assets[i].Label,
                                          assets[i].Size.Width, assets[i].Size.Height)

C7_Witness ==
    /\ WriteReturned
    /\ Len(assets) = 2
    /\ assets[1].ID # assets[2].ID
    /\ assets[1].Size.Width # assets[1].Size.Height
    /\ assets[1].Size # assets[2].Size

\* (C8, as claimed) Round trip: for every list of assets and of tags written
\* without error, the parsed file has as many asset entries as assets were
\* supplied and as many tags as tags were supplied.
C8_RoundTripCounts ==
    pc = "testDone" =>
        /\ Cardinality(DOMAIN parsed.Assets) = Len(assets)
        /\ Len(parsed.Tags) = Len(labelList)

DistinctIDs == \A i, j \in DOMAIN assets : assets[i].ID = assets[j].ID => i = j

\* (C8, amended) Round trip, for assets with pairwise distinct identifiers:
\* the parsed file has as many asset entries as assets were supplied and as
\* many tags as tags were supplied.
C8_RoundTripCountsDistinctIDs ==
    pc = "testDone" /\ DistinctIDs =>
        /\ Cardinality(DOMAIN parsed.Assets) = Len(assets)
        /\ Len(parsed.Tags) = Len(labelList)

C8_Witness ==
    /\ pc = "testDone"
    /\ DistinctIDs
    /\ Len(assets) = 2
    /\ Len(labelList) = 2
    /\ labelList[1] = labelList[2]

\* (C10) isImage(filename) is true exactly when the filename's final
\* extension is, up to case, one of .png .jpg .jpeg .gif .bmp; listImages
\* returns exactly the entries of the directory for which that holds, each
\* once, and nothing else.
C10_ImagesByExtension ==
    /\ pc = "testDone" => (probeResult <=> Qualifies(probe))
    /\ pc \in {"testProbe", "testDone"} =>
          /\ \A n \in TestNames :
                Count(images, n) = IF Count(dirEntries, n) > 0 /\ Qualifies(n) THEN 1 ELSE 0
          /\ \A i \in DOMAIN images : Count(dirEntries, images[i]) > 0

C10_Witness ==
    /\ pc = "testDone"
    /\ probeResult
    /\ probe # ToLower(probe)
    /\ Len(images) = 1
    /\ Len(dirEntries) = 2

====
